---- MODULE Spec2Model ----
(***************************************************************************)
(* A model of ebook-manager/manager.py: the content-hash index (table      *)
(* `files`), cmd_sync (forward scan and reconciliation of stale records)   *)
(* and cmd_dedup (removal of duplicate copies whose path holds a token).   *)
(* Paths and tokens are sequences of one-character strings, so that the    *)
(* suffix, the lower-casing and SQLite's instr() are computed, not assumed.*)
(***************************************************************************)
EXTENDS Integers, Sequences, FiniteSets, TLC

\* ------------------------------------------------------------ bounds
\* Number of external changes of the tree (writes, deletions, renames) in a behaviour.
MaxChanges == 1

\* ------------------------------------------------------------ paths
PathU == <<"/", "l", "/", "U", "/", "a", ".", "e">>
PathF == <<"/", "l", "/", "F", "/", "b", ".", "e">>
PathT == <<"/", "l", "/", "F", "/", "U", ".", "T">>
PathOrder == <<PathU, PathF, PathT>>
Paths == {PathOrder[i] : i \in 1..Len(PathOrder)}

RootL == <<"/", "l">>
RootF == <<"/", "l", "/", "F">>

ExtE == <<".", "e">>
ExtT == <<".", "t">>
\* The (root, exts) pairs sync is run with.
Scans == {<<RootL, {ExtE}>>, <<RootL, {ExtE, ExtT}>>, <<RootF, {ExtE}>>}

Tokens == {<<"U">>, <<"F", "/">>}

\* ------------------------------------------------------------ strings
\* str.lower() on the characters the paths use.
LowerChar(c) ==
  CASE c = "U" -> "u"
    [] c = "F" -> "f"
    [] c = "T" -> "t"
    [] OTHER -> c

Lower(s) == [i \in 1..Len(s) |-> LowerChar(s[i])]

\* The last index of character c in s, 0 when there is none.
LastIndexOf(s, c) ==
  LET hits == {i \in 1..Len(s) : s[i] = c}
  IN IF hits = {} THEN 0 ELSE CHOOSE i \in hits : \A j \in hits : j <= i

\* PurePath.name: what follows the last separator.
Name(p) == SubSeq(p, LastIndexOf(p, "/") + 1, Len(p))

\* PurePath.suffix: the name from its last dot on, empty when the name has no dot,
\* starts with its only dot or ends with a dot.
Suffix(p) ==
  LET nm == Name(p)
      i == LastIndexOf(nm, ".")
  IN IF i > 1 /\ i < Len(nm) THEN SubSeq(nm, i, Len(nm)) ELSE <<>>

\* SQLite instr(s, t): the 1-based index of the first occurrence of t in s, else 0.
Instr(s, t) ==
  LET hits == {i \in 1..(Len(s) - Len(t) + 1) : SubSeq(s, i, i + Len(t) - 1) = t}
  IN IF hits = {} THEN 0 ELSE CHOOSE i \in hits : \A j \in hits : i <= j

\* os.walk(root) yields the files below root: root, a separator, then more.
UnderRoot(p, root) ==
  /\ Len(p) > Len(root) + 1
  /\ SubSeq(p, 1, Len(root)) = root
  /\ p[Len(root) + 1] = "/"

\* The paths of a set, in the order the table and the walk list them.
SeqOf(S) == SelectSeq(PathOrder, LAMBDA p : p \in S)

\* ------------------------------------------------------------ files and hashing
NoFile == [exists |-> FALSE]
NoRec == [indexed |-> FALSE]

\* A file is its content (a byte sequence) and its modification time. The files of
\* the model differ from one another in each way the index can or cannot tell:
\* in content alone, in modification time alone, in size.
Bytes == {1, 2}
File(content, mtime) == [exists |-> TRUE, content |-> content, mtime |-> mtime]
FileVals == {File(<<1>>, 1), File(<<2>>, 1), File(<<1>>, 2), File(<<1, 1>>, 1)}

\* One read(buf) of the hashing loop takes at most BufSize bytes.
BufSize == 1

\* h.update(chunk): the digest absorbs the bytes of the chunk in order.
RECURSIVE Update(_, _)
Update(h, chunk) ==
  IF chunk = <<>> THEN h
  ELSE Update(h * (Cardinality(Bytes) + 1) + Head(chunk), Tail(chunk))

\* sha256(fp): read the file in chunks of BufSize until the read is empty.
RECURSIVE HashFrom(_, _)
HashFrom(h, rest) ==
  IF rest = <<>> THEN h
  ELSE LET k == IF Len(rest) < BufSize THEN Len(rest) ELSE BufSize
       IN HashFrom(Update(h, SubSeq(rest, 1, k)), SubSeq(rest, k + 1, Len(rest)))

sha256(content) == HashFrom(0, content)

\* st.st_size
Size(content) == Len(content)

\* ------------------------------------------------------------ the index
\* One row of table files, keyed by its path.
Row(h, size, mtime, ext) ==
  [indexed |-> TRUE, hash |-> h, size |-> size, mtime |-> mtime, ext |-> ext]

\* Mutant: the lookup never matches (a comparison of the stored mtime that always fails).
LookupByPathExact_Never(idx, p, size, mtime) == {}

\* SELECT hash FROM files WHERE path=? AND size=? AND mtime=?
LookupByPathExact(idx, p, size, mtime) ==
  IF idx[p].indexed /\ idx[p].size = size /\ idx[p].mtime = mtime
  THEN {idx[p].hash} ELSE {}

\* Mutant: ON CONFLICT(path) DO UPDATE SET hash only, size and mtime keep their old values.
Upsert_HashOnly(idx, p, h, size, mtime, ext) ==
  IF idx[p].indexed THEN [idx EXCEPT ![p].hash = h]
  ELSE [idx EXCEPT ![p] = Row(h, size, mtime, ext)]

\* INSERT ... ON CONFLICT(path) DO UPDATE SET hash, size, mtime, ext
Upsert(idx, p, h, size, mtime, ext) == [idx EXCEPT ![p] = Row(h, size, mtime, ext)]

\* Mutant: the statement matches no row (a path compared in another spelling).
DeleteByPath_Noop(idx, p) == idx

\* DELETE FROM files WHERE path=?
DeleteByPath(idx, p) == [idx EXCEPT ![p] = NoRec]

\* SELECT path, hash FROM files
ScanAll(idx) ==
  LET ps == SeqOf({p \in Paths : idx[p].indexed})
  IN [i \in 1..Len(ps) |-> <<ps[i], idx[ps[i]].hash>>]

\* SELECT path FROM files WHERE hash=? AND path<>?
PathsWithFingerprint(idx, h, p) ==
  {q \in Paths : idx[q].indexed /\ idx[q].hash = h /\ q # p}

\* Mutant: `outside` without its WHERE clause, the fingerprints of all rows.
OutsideHashes_All(idx, token) == {idx[q].hash : q \in {r \in Paths : idx[r].indexed}}

\* WITH outside AS (SELECT DISTINCT hash FROM files WHERE instr(path, ?) = 0)
OutsideHashes(idx, token) ==
  {idx[q].hash : q \in {r \in Paths : idx[r].indexed /\ Instr(r, token) = 0}}

\* Mutant: the query without `AND hash IN (...)`, every row whose path holds the token.
DedupRows_AnyToken(idx, token) ==
  SeqOf({p \in Paths : idx[p].indexed /\ Instr(p, token) > 0})

\* SELECT path FROM files WHERE instr(path, ?) > 0 AND hash IN (SELECT hash FROM outside)
DedupRows(idx, token) ==
  SeqOf({p \in Paths : /\ idx[p].indexed
                       /\ Instr(p, token) > 0
                       /\ idx[p].hash \in OutsideHashes(idx, token)})

\* ------------------------------------------------------------ state
VARIABLES
  fs,              \* the tree: path -> file (content, mtime) or NoFile
  db,              \* the committed table files: path -> row or NoRec
  conn,            \* the table as the open connection sees it (uncommitted writes)
  pc,              \* "idle", "walk", "reconcile", "dedup", "sync_done", "dedup_done", "aborted"
  args,            \* the command line of the current or last run
  walk,            \* cmd_sync: files os.walk has listed and the loop has not reached
  pending,         \* cmd_sync: the file between its stat/lookup and its hashing
  seen_paths,      \* cmd_sync: seen_paths
  present_hashes,  \* cmd_sync: present_hashes
  stale,           \* cmd_sync: rows of `stale` the second loop has not reached
  missing,         \* cmd_sync: missing
  removed_moved,   \* cmd_sync: removed_moved
  removed_missing, \* cmd_sync: removed_missing
  to_delete,       \* cmd_dedup: candidates the loop has not reached
  rows,            \* cmd_dedup: the rows the query returned (what a run prints or attempts)
  deleted,         \* cmd_dedup: deleted
  statted,         \* history: paths stat-ed by this sync run
  hashed,          \* history: paths whose content this sync run read and hashed
  unlinked,        \* history: paths whose file this dedup run removed
  errors,          \* history: paths this dedup run reported on the error channel
  raced,           \* history: paths that vanished while this sync run was walking
  attempted,       \* history: the paths this dedup run tried to unlink, in order
  prior,           \* history: what came right before this run (a rename, a deletion, a rewrite,
                   \*          the same sync, a dry run), or how the last run was cut short
  changes          \* number of external changes so far

vars ==
  <<fs, db, conn, pc, args, walk, pending, seen_paths, present_hashes, stale, missing,
    removed_moved, removed_missing, to_delete, rows, deleted, statted, hashed, unlinked,
    errors, attempted, raced, prior, changes>>

syncLocals ==
  <<pending, seen_paths, present_hashes, stale, missing, removed_moved,
    removed_missing, statted, hashed, raced>>
dedupLocals == <<to_delete, rows, deleted, unlinked, errors, attempted>>

NoArgs == [cmd |-> "none"]
NoPending == [waiting |-> FALSE]
NoPrior == [kind |-> "none"]

Running == pc \in {"walk", "reconcile", "dedup"}

\* The locals of both commands as a fresh invocation finds them.
FreshSync ==
  /\ pending' = NoPending
  /\ seen_paths' = {}
  /\ present_hashes' = {}
  /\ stale' = <<>>
  /\ missing' = <<>>
  /\ removed_moved' = 0
  /\ removed_missing' = 0
  /\ statted' = {}
  /\ hashed' = {}
  /\ raced' = {}

FreshDedup ==
  /\ to_delete' = <<>>
  /\ rows' = <<>>
  /\ deleted' = 0
  /\ unlinked' = {}
  /\ errors' = {}
  /\ attempted' = <<>>

\* An empty index beside any tree.
Init ==
  /\ fs \in [Paths -> FileVals \cup {NoFile}]
  /\ db = [p \in Paths |-> NoRec]
  /\ conn = db
  /\ pc = "idle"
  /\ args = NoArgs
  /\ walk = <<>>
  /\ pending = NoPending
  /\ seen_paths = {}
  /\ present_hashes = {}
  /\ stale = <<>>
  /\ missing = <<>>
  /\ removed_moved = 0
  /\ removed_missing = 0
  /\ to_delete = <<>>
  /\ rows = <<>>
  /\ deleted = 0
  /\ statted = {}
  /\ hashed = {}
  /\ unlinked = {}
  /\ errors = {}
  /\ attempted = <<>>
  /\ raced = {}
  /\ prior = NoPrior
  /\ changes = 0

\* ------------------------------------------------------------ the environment
\* What every external change of the tree does to the bookkeeping: the last run's
\* locals are gone and no command line is current.
Forget ==
  /\ pc' = "idle"
  /\ args' = NoArgs
  /\ walk' = <<>>
  /\ FreshSync
  /\ FreshDedup
  /\ changes' = changes + 1
  /\ UNCHANGED <<db, conn>>

\* Another program creates or rewrites a file (any content, any mtime).
ExtWrite(p, f) ==
  /\ ~Running
  /\ changes < MaxChanges
  /\ f # fs[p]
  /\ fs' = [fs EXCEPT ![p] = f]
  /\ prior' = IF db[p].indexed /\ fs[p].exists THEN [kind |-> "write", path |-> p] ELSE NoPrior
  /\ Forget

\* Another program deletes a file.
ExtDelete(p) ==
  /\ ~Running
  /\ changes < MaxChanges
  /\ fs[p].exists
  /\ fs' = [fs EXCEPT ![p] = NoFile]
  /\ prior' = IF db[p].indexed THEN [kind |-> "delete", path |-> p] ELSE NoPrior
  /\ Forget

\* Another program renames a to b (content and mtime travel with the file).
ExtMove(a, b) ==
  /\ ~Running
  /\ changes < MaxChanges
  /\ a # b
  /\ fs[a].exists
  /\ fs' = [fs EXCEPT ![b] = fs[a], ![a] = NoFile]
  /\ prior' = IF db[a].indexed
              THEN [kind |-> "move", src |-> a, dst |-> b, fp |-> db[a].hash,
                    current |-> db[a].hash = sha256(fs[a].content),
                    onlyRecord |-> PathsWithFingerprint(db, db[a].hash, a) = {},
                    onlyFile |-> \A q \in Paths \ {a} :
                                   fs[q].exists => sha256(fs[q].content) # db[a].hash,
                    dstIndexed |-> db[b].indexed]
              ELSE NoPrior
  /\ Forget

\* A file the walk has listed disappears before the loop reaches it, or between
\* its stat and its read.
RaceDelete(p) ==
  /\ pc = "walk"
  /\ changes < MaxChanges
  /\ fs[p].exists
  /\ \/ \E i \in 1..Len(walk) : walk[i] = p
     \/ pending.waiting /\ pending.path = p
  /\ fs' = [fs EXCEPT ![p] = NoFile]
  /\ raced' = raced \cup {p}
  /\ prior' = NoPrior
  /\ changes' = changes + 1
  /\ UNCHANGED <<db, conn, pc, args, walk, pending, seen_paths, present_hashes, stale,
                 missing, removed_moved, removed_missing, statted, hashed>>
  /\ UNCHANGED dedupLocals

\* Mutant: every statement is committed as it is executed (autocommit), so the writes
\* made so far outlive the process.
Abort_KeepsWrites ==
  /\ pc' = "aborted"
  /\ db' = conn
  /\ conn' = conn
  /\ walk' = <<>>
  /\ FreshSync
  /\ FreshDedup
  /\ args' = NoArgs
  /\ prior' = [kind |-> "killed", dirty |-> conn # db, removed |-> unlinked # {}]
  /\ UNCHANGED <<fs, changes>>

\* The process is terminated from outside, or dies of an uncaught exception: the
\* open transaction is rolled back and the locals are gone.
Abort ==
  /\ pc' = "aborted"
  /\ conn' = db
  /\ walk' = <<>>
  /\ FreshSync
  /\ FreshDedup
  /\ args' = NoArgs
  /\ prior' = [kind |-> "killed", dirty |-> conn # db, removed |-> unlinked # {}]
  /\ UNCHANGED <<fs, db, changes>>

Kill ==
  /\ Running
  /\ Abort

\* ------------------------------------------------------------ cmd_sync
\* Mutant: the suffix test dropped, every file the walk yields is taken.
Included_Any(p, exts) == TRUE

\* if p.suffix.lower() in exts
Included(p, exts) == Lower(Suffix(p)) \in exts

\* os.walk(root): the files below root when the walk lists them.
Listing(files, root) == SeqOf({p \in Paths : UnderRoot(p, root) /\ files[p].exists})

\* Mutant: the same-hash rows are never found (the query keeps path = ?, not path <> ?).
MovedElsewhere_Never(idx, files, h, p) == FALSE

\* Mutant: any same-hash row counts, whether or not its path exists.
MovedElsewhere_NoExistsCheck(idx, files, h, p) == PathsWithFingerprint(idx, h, p) # {}

\* moved_elsewhere = any(Path(op).exists() for (op,) in rows_same_hash)
MovedElsewhere(idx, files, h, p) ==
  \E op \in PathsWithFingerprint(idx, h, p) : files[op].exists

\* Mutant: `if args.clean` dropped, a missing row is always deleted.
Classify_AlwaysPrune(idx, files, seen, p, h, clean) ==
  IF p \in seen THEN "seen"
  ELSE IF files[p].exists THEN "exists"
  ELSE IF \E op \in PathsWithFingerprint(idx, h, p) : files[op].exists THEN "moved"
  ELSE "missing_removed"

\* Mutant: `if Path(path_str).exists(): continue` dropped.
Classify_NoExistsCheck(idx, files, seen, p, h, clean) ==
  IF p \in seen THEN "seen"
  ELSE IF \E op \in PathsWithFingerprint(idx, h, p) : files[op].exists THEN "moved"
  ELSE IF clean THEN "missing_removed"
  ELSE "missing_warned"

\* Mutant: `if args.clean` tested before moved_elsewhere.
Classify_MissingFirst(idx, files, seen, p, h, clean) ==
  IF p \in seen THEN "seen"
  ELSE IF files[p].exists THEN "exists"
  ELSE IF clean THEN "missing_removed"
  ELSE IF \E op \in PathsWithFingerprint(idx, h, p) : files[op].exists THEN "moved"
  ELSE "missing_warned"

\* What the second loop does with one row of `stale`.
Classify(idx, files, seen, p, h, clean) ==
  IF p \in seen THEN "seen"
  ELSE IF files[p].exists THEN "exists"
  ELSE IF MovedElsewhere(idx, files, h, p) THEN "moved"
  ELSE IF clean THEN "missing_removed"
  ELSE "missing_warned"

\* `ebooks sync root [--clean] [--exts ...]` starts: the index is opened and the
\* walk lists the tree.
SyncStart(root, exts, clean) ==
  /\ ~Running
  /\ pc' = "walk"
  /\ args' = [cmd |-> "sync", root |-> root, exts |-> exts, clean |-> clean]
  /\ conn' = db
  /\ walk' = Listing(fs, root)
  /\ FreshSync
  /\ FreshDedup
  /\ prior' = IF pc = "idle" /\ prior.kind \in {"move", "delete", "write"} THEN prior
              ELSE IF /\ pc = "sync_done"
                      /\ raced = {}
                      /\ args = [cmd |-> "sync", root |-> root, exts |-> exts, clean |-> clean]
                   THEN [kind |-> "sync"]
                   ELSE NoPrior
  /\ UNCHANGED <<fs, db, changes>>

AtFile == pc = "walk" /\ ~pending.waiting /\ walk # <<>>

\* The walk yields a file whose suffix is not in exts: upsert_and_track is not called.
SyncSkipExt ==
  /\ AtFile
  /\ ~Included(Head(walk), args.exts)
  /\ walk' = Tail(walk)
  /\ UNCHANGED <<fs, db, conn, pc, args, pending, seen_paths, present_hashes, stale,
                 missing, removed_moved, removed_missing, statted, hashed, raced, prior,
                 changes>>
  /\ UNCHANGED dedupLocals

\* p.stat() raises FileNotFoundError: SKIP vanished(stat).
SyncStatVanished ==
  /\ AtFile
  /\ Included(Head(walk), args.exts)
  /\ ~fs[Head(walk)].exists
  /\ walk' = Tail(walk)
  /\ UNCHANGED <<fs, db, conn, pc, args, pending, seen_paths, present_hashes, stale,
                 missing, removed_moved, removed_missing, statted, hashed, raced, prior,
                 changes>>
  /\ UNCHANGED dedupLocals

\* The stat succeeds and the row matches size and mtime: CACHED.
SyncCached ==
  /\ AtFile
  /\ Included(Head(walk), args.exts)
  /\ fs[Head(walk)].exists
  /\ LET p == Head(walk)
         row == LookupByPathExact(conn, p, Size(fs[p].content), fs[p].mtime)
     IN /\ row # {}
        /\ present_hashes' = present_hashes \cup row
        /\ seen_paths' = seen_paths \cup {p}
        /\ statted' = statted \cup {p}
  /\ walk' = Tail(walk)
  /\ UNCHANGED <<fs, db, conn, pc, args, pending, stale, missing, removed_moved,
                 removed_missing, hashed, raced, prior, changes>>
  /\ UNCHANGED dedupLocals

\* The stat succeeds and no row matches: the file is to be hashed.
SyncStatMiss ==
  /\ AtFile
  /\ Included(Head(walk), args.exts)
  /\ fs[Head(walk)].exists
  /\ LET p == Head(walk)
     IN /\ LookupByPathExact(conn, p, Size(fs[p].content), fs[p].mtime) = {}
        /\ pending' = [waiting |-> TRUE, path |-> p, size |-> Size(fs[p].content),
                       mtime |-> fs[p].mtime, ext |-> Lower(Suffix(p))]
        /\ seen_paths' = seen_paths \cup {p}
        /\ statted' = statted \cup {p}
  /\ walk' = Tail(walk)
  /\ UNCHANGED <<fs, db, conn, pc, args, present_hashes, stale, missing, removed_moved,
                 removed_missing, hashed, raced, prior, changes>>
  /\ UNCHANGED dedupLocals

\* sha256(p) succeeds and the row is upserted: HASHED.
SyncHash ==
  /\ pc = "walk"
  /\ pending.waiting
  /\ fs[pending.path].exists
  /\ LET h == sha256(fs[pending.path].content)
     IN /\ present_hashes' = present_hashes \cup {h}
        /\ conn' = Upsert(conn, pending.path, h, pending.size, pending.mtime, pending.ext)
  /\ hashed' = hashed \cup {pending.path}
  /\ pending' = NoPending
  /\ UNCHANGED <<fs, db, pc, args, walk, seen_paths, stale, missing, removed_moved,
                 removed_missing, statted, raced, prior, changes>>
  /\ UNCHANGED dedupLocals

\* Mutant: the vanished file is taken for an empty one and its row is written.
SyncHashVanished_Upserts ==
  /\ pc = "walk"
  /\ pending.waiting
  /\ ~fs[pending.path].exists
  /\ conn' = Upsert(conn, pending.path, sha256(<<>>), pending.size, pending.mtime, pending.ext)
  /\ pending' = NoPending
  /\ UNCHANGED <<fs, db, pc, args, walk, seen_paths, present_hashes, stale, missing,
                 removed_moved, removed_missing, statted, hashed, raced, prior, changes>>
  /\ UNCHANGED dedupLocals

\* sha256(p) raises FileNotFoundError: SKIP vanished(read).
SyncHashVanished ==
  /\ pc = "walk"
  /\ pending.waiting
  /\ ~fs[pending.path].exists
  /\ pending' = NoPending
  /\ UNCHANGED <<fs, db, conn, pc, args, walk, seen_paths, present_hashes, stale, missing,
                 removed_moved, removed_missing, statted, hashed, raced, prior, changes>>
  /\ UNCHANGED dedupLocals

\* The INSERT raises (disk full, locked, corrupt): nothing catches it.
SyncUpsertFails ==
  /\ pc = "walk"
  /\ pending.waiting
  /\ fs[pending.path].exists
  /\ Abort

\* stale = conn.execute("SELECT path, hash FROM files").fetchall()
SyncScan ==
  /\ pc = "walk"
  /\ ~pending.waiting
  /\ walk = <<>>
  /\ pc' = "reconcile"
  /\ stale' = ScanAll(conn)
  /\ UNCHANGED <<fs, db, conn, args, walk, pending, seen_paths, present_hashes, missing,
                 removed_moved, removed_missing, statted, hashed, raced, prior, changes>>
  /\ UNCHANGED dedupLocals

AtRow == pc = "reconcile" /\ stale # <<>>
RowClass ==
  Classify(conn, fs, seen_paths, Head(stale)[1], Head(stale)[2], args.clean)

\* The row's path was seen, or exists: continue.
SyncKeep ==
  /\ AtRow
  /\ RowClass \in {"seen", "exists"}
  /\ stale' = Tail(stale)
  /\ UNCHANGED <<fs, db, conn, pc, args, walk, pending, seen_paths, present_hashes,
                 missing, removed_moved, removed_missing, statted, hashed, raced, prior,
                 changes>>
  /\ UNCHANGED dedupLocals

\* REMOVED_MOVED
SyncRemoveMoved ==
  /\ AtRow
  /\ RowClass = "moved"
  /\ conn' = DeleteByPath(conn, Head(stale)[1])
  /\ removed_moved' = removed_moved + 1
  /\ stale' = Tail(stale)
  /\ UNCHANGED <<fs, db, pc, args, walk, pending, seen_paths, present_hashes, missing,
                 removed_missing, statted, hashed, raced, prior, changes>>
  /\ UNCHANGED dedupLocals

\* REMOVED_MISSING
SyncRemoveMissing ==
  /\ AtRow
  /\ RowClass = "missing_removed"
  /\ conn' = DeleteByPath(conn, Head(stale)[1])
  /\ removed_missing' = removed_missing + 1
  /\ stale' = Tail(stale)
  /\ UNCHANGED <<fs, db, pc, args, walk, pending, seen_paths, present_hashes, missing,
                 removed_moved, statted, hashed, raced, prior, changes>>
  /\ UNCHANGED dedupLocals

\* missing.append(path_str)
SyncWarnMissing ==
  /\ AtRow
  /\ RowClass = "missing_warned"
  /\ missing' = Append(missing, Head(stale)[1])
  /\ stale' = Tail(stale)
  /\ UNCHANGED <<fs, db, conn, pc, args, walk, pending, seen_paths, present_hashes,
                 removed_moved, removed_missing, statted, hashed, raced, prior, changes>>
  /\ UNCHANGED dedupLocals

\* A DELETE of the second loop raises: nothing catches it.
SyncDeleteFails ==
  /\ AtRow
  /\ RowClass \in {"moved", "missing_removed"}
  /\ Abort

\* conn.commit(); conn.close(); the warning list and the summary are printed.
SyncCommit ==
  /\ pc = "reconcile"
  /\ stale = <<>>
  /\ db' = conn
  /\ pc' = "sync_done"
  /\ UNCHANGED <<fs, conn, args, walk, pending, seen_paths, present_hashes, stale, missing,
                 removed_moved, removed_missing, statted, hashed, raced, prior, changes>>
  /\ UNCHANGED dedupLocals

\* ------------------------------------------------------------ cmd_dedup
\* Mutant: the whole tree is removed instead of the one file.
Unlink_All(files, p) == [q \in Paths |-> NoFile]

\* p.unlink() that succeeds.
Unlink(files, p) == [files EXCEPT ![p] = NoFile]

\* Mutant: `if args.dry_run` dropped, a dry run goes on to delete.
ToDelete_IgnoresDryRun(found, dry_run) == found

\* What a run that found `found` candidates goes on to attempt: nothing when there
\* are none ("Nothing to delete.") or when --dry-run only prints them.
ToDelete(found, dry_run) == IF found = <<>> \/ dry_run THEN <<>> ELSE found

\* `ebooks dedup [--unorganized token] [--dry-run]` starts: the query runs, and the
\* run is over at once when there is no candidate or with --dry-run.
DedupStart(token, dry_run) ==
  /\ ~Running
  /\ args' = [cmd |-> "dedup", token |-> token, dry_run |-> dry_run]
  /\ conn' = db
  /\ rows' = DedupRows(db, token)
  /\ to_delete' = ToDelete(rows', dry_run)
  /\ pc' = IF to_delete' = <<>> THEN "dedup_done" ELSE "dedup"
  /\ deleted' = 0
  /\ unlinked' = {}
  /\ errors' = {}
  /\ attempted' = <<>>
  /\ walk' = <<>>
  /\ FreshSync
  /\ prior' = IF /\ ~dry_run
                 /\ pc = "dedup_done"
                 /\ args = [cmd |-> "dedup", token |-> token, dry_run |-> TRUE]
              THEN [kind |-> "dry", list |-> rows]
              ELSE NoPrior
  /\ UNCHANGED <<fs, db, changes>>

AtCandidate == pc = "dedup" /\ to_delete # <<>>

\* unlink and DELETE both succeed: DELETED.
DedupDelete ==
  /\ AtCandidate
  /\ fs[Head(to_delete)].exists
  /\ fs' = Unlink(fs, Head(to_delete))
  /\ conn' = DeleteByPath(conn, Head(to_delete))
  /\ deleted' = deleted + 1
  /\ unlinked' = unlinked \cup {Head(to_delete)}
  /\ attempted' = Append(attempted, Head(to_delete))
  /\ to_delete' = Tail(to_delete)
  /\ UNCHANGED <<db, pc, args, rows, errors, prior, changes>>
  /\ UNCHANGED <<walk, syncLocals>>

\* unlink raises (the file is gone, or permission is denied): ERROR is printed.
DedupUnlinkFails ==
  /\ AtCandidate
  /\ errors' = errors \cup {Head(to_delete)}
  /\ attempted' = Append(attempted, Head(to_delete))
  /\ to_delete' = Tail(to_delete)
  /\ UNCHANGED <<fs, db, conn, pc, args, rows, deleted, unlinked, prior, changes>>
  /\ UNCHANGED <<walk, syncLocals>>

\* unlink succeeds and the DELETE raises: the same except clause prints ERROR and
\* the loop goes on.
DedupIndexFails ==
  /\ AtCandidate
  /\ fs[Head(to_delete)].exists
  /\ fs' = Unlink(fs, Head(to_delete))
  /\ unlinked' = unlinked \cup {Head(to_delete)}
  /\ errors' = errors \cup {Head(to_delete)}
  /\ attempted' = Append(attempted, Head(to_delete))
  /\ to_delete' = Tail(to_delete)
  /\ UNCHANGED <<db, conn, pc, args, rows, deleted, prior, changes>>
  /\ UNCHANGED <<walk, syncLocals>>

\* conn.commit(); conn.close(); "Deleted {deleted} of {n} file(s)."
DedupCommit ==
  /\ pc = "dedup"
  /\ to_delete = <<>>
  /\ db' = conn
  /\ pc' = "dedup_done"
  /\ UNCHANGED <<fs, conn, args, to_delete, rows, deleted, unlinked, errors, attempted, prior,
                 changes>>
  /\ UNCHANGED <<walk, syncLocals>>

\* ------------------------------------------------------------ specification
Next ==
  \/ \E p \in Paths, f \in FileVals : ExtWrite(p, f)
  \/ \E p \in Paths : ExtDelete(p)
  \/ \E a \in Paths, b \in Paths : ExtMove(a, b)
  \/ \E p \in Paths : RaceDelete(p)
  \/ Kill
  \/ \E scan \in Scans, clean \in BOOLEAN : SyncStart(scan[1], scan[2], clean)
  \/ SyncSkipExt
  \/ SyncStatVanished
  \/ SyncCached
  \/ SyncStatMiss
  \/ SyncHash
  \/ SyncHashVanished
  \/ SyncUpsertFails
  \/ SyncScan
  \/ SyncKeep
  \/ SyncRemoveMoved
  \/ SyncRemoveMissing
  \/ SyncWarnMissing
  \/ SyncDeleteFails
  \/ SyncCommit
  \/ \E token \in Tokens, dry_run \in BOOLEAN : DedupStart(token, dry_run)
  \/ DedupDelete
  \/ DedupUnlinkFails
  \/ DedupIndexFails
  \/ DedupCommit

Spec == Init /\ [][Next]_vars

\* ------------------------------------------------------------ claims
\* The paths whose row in idx holds fingerprint h.
HoldersOf(idx, h) == {q \in Paths : idx[q].indexed /\ idx[q].hash = h}

InList(list, p) == \E i \in 1..Len(list) : list[i] = p

\* A sync run has completed right after a rename src -> dst of an indexed file, dst
\* under the scanned root with an included suffix, and nothing else has happened.
MoveCase ==
  /\ pc = "sync_done"
  /\ prior.kind = "move"
  /\ UnderRoot(prior.dst, args.root)
  /\ Lower(Suffix(prior.dst)) \in args.exts

\* Exactly one row holds the moved fingerprint, it is at dst, src has no row and is
\* not reported missing.
MoveDetected ==
  /\ HoldersOf(db, prior.fp) = {prior.dst}
  /\ ~db[prior.src].indexed
  /\ ~InList(missing, prior.src)

\* The rename started from a row that was current and alone: its fingerprint was that
\* of the file, no other row and no other file held it, and dst had no row.
MoveOfFreshUniqueFile ==
  /\ prior.current
  /\ prior.onlyRecord
  /\ prior.onlyFile
  /\ ~prior.dstIndexed

\* C1 as stated: for ANY index recording A with fingerprint F, after the rename A -> B
\* and one completed sync, exactly one row holds F, at B, none at A, A not missing.
C1_MoveDetectedAnyIndex == MoveCase => MoveDetected

\* C1 amended: the same, when A's row was current (F is the fingerprint of A's
\* content), no other row and no other file held F, B had no row, and the tree did
\* not change otherwise before the run completed; for both values of --clean.
C1_MoveDetected == (MoveCase /\ MoveOfFreshUniqueFile) => MoveDetected

C1_Witness ==
  /\ MoveCase
  /\ MoveOfFreshUniqueFile
  /\ MoveDetected
  /\ args.clean
  /\ removed_moved = 1

\* A sync run commits: db is the index the run found, db' the one it leaves.
SyncCommits == pc = "reconcile" /\ pc' = "sync_done"

\* What C2 promises for a row at p: kept unchanged and reported without --clean,
\* removed with --clean.
MissingHandled(p) ==
  IF args.clean THEN ~db'[p].indexed
  ELSE db'[p] = db[p] /\ InList(missing, p)

\* Some other row of idx holds p's fingerprint and its path exists on disk.
HasLiveTwin(idx, p, h) ==
  \E q \in Paths \ {p} : idx[q].indexed /\ idx[q].hash = h /\ fs[q].exists

\* Without --clean a committed run deleted no row that has no other on-disk path with
\* the same fingerprint.
NoLoneRowDeleted ==
  ~args.clean =>
    \A p \in Paths : (db[p].indexed /\ ~db'[p].indexed) => HasLiveTwin(db', p, db[p].hash)

\* C2 as stated: an indexed file whose fingerprint no other row holds is deleted and
\* sync runs: without --clean the row is kept unchanged and reported missing, with
\* --clean it is removed; and no sync without --clean deletes a row that has no other
\* on-disk path with the same fingerprint.
C2_MissingByOldIndex ==
  [][SyncCommits =>
       /\ \A p \in Paths :
            (/\ prior.kind = "delete"
             /\ prior.path = p
             /\ HoldersOf(db, db[p].hash) = {p}) => MissingHandled(p)
       /\ NoLoneRowDeleted]_vars

\* C2 amended: the same for every indexed file gone from disk before the run whose
\* fingerprint is held, in the index as the run's forward scan leaves it, by no other
\* row whose path exists on disk.
C2_MissingWithoutDuplicate ==
  [][SyncCommits =>
       /\ \A p \in Paths :
            (/\ db[p].indexed
             /\ ~fs[p].exists
             /\ p \notin raced
             /\ ~HasLiveTwin(db', p, db[p].hash)) => MissingHandled(p)
       /\ NoLoneRowDeleted]_vars

C2_Witness ==
  /\ pc = "sync_done"
  /\ ~args.clean
  /\ prior.kind = "delete"
  /\ \E p \in {prior.path} :
       /\ InList(missing, p)
       /\ db[p].indexed
       /\ ~fs[p].exists
       /\ ~HasLiveTwin(db, p, db[p].hash)

\* The rows C3 names: the path contains the token and the fingerprint is also held by
\* a row whose path does not.
DuplicatedOutside(idx, token) ==
  {p \in Paths :
     /\ idx[p].indexed
     /\ Instr(p, token) > 0
     /\ \E q \in Paths : idx[q].indexed /\ Instr(q, token) = 0 /\ idx[q].hash = idx[p].hash}

AsSet(list) == {list[i] : i \in 1..Len(list)}

\* C3: a dedup run without --dry-run ends having attempted exactly the rows whose path
\* contains the token and whose fingerprint a row without the token also holds; and
\* no step of the run changes the file or the row of any other path.
C3_DedupSelection ==
  [][/\ (pc' = "dedup_done" /\ ~args'.dry_run)
          => AsSet(attempted') = DuplicatedOutside(db, args'.token)
     /\ pc = "dedup"
          => \A p \in Paths \ DuplicatedOutside(db, args.token) :
               fs'[p] = fs[p] /\ conn'[p] = conn[p] /\ db'[p] = db[p]]_vars

\* A run has deleted a duplicate and left alone a token-path row whose fingerprint no
\* row outside holds.
C3_Witness ==
  /\ pc = "dedup_done"
  /\ ~args.dry_run
  /\ unlinked # {}
  /\ \E p \in Paths : db[p].indexed /\ Instr(p, args.token) > 0 /\ fs[p].exists

\* A step of a dedup run removes the file at p.
DedupRemoves(p) == pc = "dedup" /\ fs[p].exists /\ ~fs'[p].exists

\* C4 as stated: every file dedup removes has, at that moment, a file of identical
\* content on disk at a path that does not contain the token, whatever syncs and
\* external changes came before the run.
C4_CopyOnDiskOutside ==
  [][\A p \in Paths :
       DedupRemoves(p) =>
         \E q \in Paths :
           Instr(q, args.token) = 0 /\ fs[q].exists /\ fs[q].content = fs[p].content]_vars

\* C4 amended: every file dedup removes has a row, and the index the run found holds
\* a row with the same fingerprint at a path that does not contain the token (the
\* disk is not consulted: that copy may be gone or changed since it was indexed).
C4_CopyIndexedOutside ==
  [][\A p \in Paths :
       DedupRemoves(p) =>
         /\ db[p].indexed
         /\ \E q \in Paths :
              Instr(q, args.token) = 0 /\ db[q].indexed /\ db[q].hash = db[p].hash]_vars

\* A file was removed and a file of the same fingerprint is on disk outside the token.
C4_Witness ==
  /\ pc = "dedup_done"
  /\ ~args.dry_run
  /\ \E p \in unlinked, q \in Paths :
       /\ Instr(q, args.token) = 0
       /\ db[q].indexed
       /\ fs[q].exists
       /\ sha256(fs[q].content) = db[q].hash

\* C5: no step of a dedup --dry-run changes a file or a row, and a dedup without the
\* flag, run right after it from the same state with the same token, attempts
\* exactly the paths the dry run listed, in that order.
C5_DryRunNoSideEffect ==
  [][/\ (args'.cmd = "dedup" /\ args'.dry_run)
          => fs' = fs /\ db' = db /\ conn' = db
     /\ (pc' = "dedup_done" /\ prior'.kind = "dry")
          => attempted' = prior'.list]_vars

C5_Witness ==
  /\ pc = "dedup_done"
  /\ ~args.dry_run
  /\ prior.kind = "dry"
  /\ Len(prior.list) = 2
  /\ attempted = prior.list

\* A step of the dedup loop whose physical deletion failed: the candidate was
\* attempted and its file is as it was.
DeletionFailed ==
  /\ pc = "dedup"
  /\ Len(attempted') = Len(attempted) + 1
  /\ fs' = fs

\* C6 as stated: a candidate whose physical deletion fails keeps its row and the loop
\* goes on to the remaining candidates; the run ends having attempted every candidate,
\* and the deleted count it reports is the number of files physically removed.
C6_PartialFailure ==
  [][/\ DeletionFailed => (conn' = conn /\ pc' = "dedup")
     /\ (pc = "dedup" /\ pc' = "dedup_done")
          => /\ attempted = rows
             /\ deleted = Cardinality(unlinked)]_vars

\* C7: a sync run that follows a completed sync run with the same root, extensions and
\* --clean, the tree unchanged between and during both, hashes no file and commits
\* the index it found.
C7_SyncIdempotent ==
  [][(SyncCommits /\ prior.kind = "sync") => (hashed = {} /\ db' = db)]_vars

C7_Witness ==
  /\ pc = "sync_done"
  /\ prior.kind = "sync"
  /\ statted # {}
  /\ hashed = {}
  /\ missing # <<>>

\* C8: a sync run never stats or hashes a file whose lower-cased suffix is not in the
\* extension set, and never creates or updates its row.
C8_ExtensionFilter ==
  args.cmd = "sync" =>
    \A p \in Paths :
      Lower(Suffix(p)) \notin args.exts =>
        /\ p \notin statted
        /\ p \notin hashed
        /\ conn[p].indexed => conn[p] = db[p]

\* A run has walked a tree that holds a file with an excluded suffix, and indexed another.
C8_Witness ==
  /\ pc = "sync_done"
  /\ hashed # {}
  /\ \E p \in Paths :
       /\ fs[p].exists
       /\ UnderRoot(p, args.root)
       /\ Lower(Suffix(p)) \notin args.exts
       /\ ~db[p].indexed

\* C9 as stated: dedup deletes a row only after it has removed that file in the same
\* run, and when the run has finished no file it removed still has a row, also when
\* an index write failed after the file was removed.
C9_PhysicalBeforeIndex ==
  args.cmd = "dedup" =>
    /\ \A p \in Paths : (db[p].indexed /\ ~conn[p].indexed) => p \in unlinked
    /\ pc = "dedup_done" => \A p \in unlinked : ~db[p].indexed

\* The second loop of sync deletes the row at p as moved.
RemovedAsMoved(p) ==
  /\ pc = "reconcile"
  /\ removed_moved' = removed_moved + 1
  /\ conn[p].indexed
  /\ ~conn'[p].indexed

\* C10 as stated: when sync deletes a row as moved, some other indexed path exists on
\* disk and the file there has content with the deleted row's fingerprint, also when
\* that path was not refreshed by the forward scan.
C10_ContentLivesOn ==
  [][\A p \in Paths :
       RemovedAsMoved(p) =>
         \E q \in Paths \ {p} :
           /\ conn[q].indexed
           /\ fs[q].exists
           /\ sha256(fs[q].content) = conn[p].hash]_vars

\* C10 amended: when sync deletes a row as moved, some other row holds the same
\* fingerprint and its path exists on disk (the content of that file is not read: it
\* has the fingerprint only as far as that row is current).
C10_TwinRowExists ==
  [][\A p \in Paths :
       RemovedAsMoved(p) =>
         \E q \in Paths \ {p} :
           /\ conn[q].indexed
           /\ conn[q].hash = conn[p].hash
           /\ fs[q].exists]_vars

\* A run has deleted a row as moved on the strength of a row it did not visit.
C10_Witness ==
  /\ pc = "sync_done"
  /\ removed_moved = 1
  /\ seen_paths = {}
  /\ \E q \in Paths : db[q].indexed /\ fs[q].exists

\* A step of a sync run that is not the end of the process.
SyncStep == pc \in {"walk", "reconcile"} /\ pc' # "aborted"

\* The run goes past a vanished file: the loop moves on to the next file and writes
\* nothing for this one.
SkipContinues ==
  /\ (AtFile /\ Head(walk) \in raced /\ fs' = fs)
       => (pc' = "walk" /\ walk' = Tail(walk) /\ conn' = conn /\ seen_paths' = seen_paths)
  /\ (pc = "walk" /\ pending.waiting /\ pending.path \in raced /\ fs' = fs)
       => (pc' = "walk" /\ pending' = NoPending /\ walk' = walk /\ conn' = conn)

\* C11 as stated: a listed file that vanishes before its stat or before its read is
\* skipped, no step of either pass changes its row, with or without --clean, and the
\* run goes on with the remaining files.
C11_NoRecordChange ==
  [][SyncStep =>
       /\ \A p \in raced : conn'[p] = conn[p] /\ (pc' = "sync_done" => db'[p] = db[p])
       /\ SkipContinues]_vars

\* C11 amended: the forward scan changes the row of neither; a file that vanished
\* after its stat is marked seen and reconciliation leaves its row unchanged too; a
\* file that vanished before its stat is not marked seen, and reconciliation treats its
\* row as that of any absent path: deleted when another row with the same fingerprint
\* has a path on disk or --clean is set, else kept unchanged; the run goes on.
C11_VanishTolerated ==
  [][SyncStep =>
       /\ \A p \in raced :
            /\ pc = "walk" => conn'[p] = conn[p]
            /\ p \in seen_paths => conn'[p] = conn[p] /\ (pc' = "sync_done" => db'[p] = db[p])
            /\ (p \notin seen_paths /\ conn'[p] # conn[p])
                 => /\ ~conn'[p].indexed
                    /\ args.clean \/ HasLiveTwin(conn, p, conn[p].hash)
       /\ SkipContinues]_vars

\* A run has skipped a file that vanished between its stat and its read, gone on to
\* hash another and committed; the vanished file has no row.
C11_Witness ==
  /\ pc = "sync_done"
  /\ hashed # {}
  /\ \E p \in raced : p \in seen_paths /\ p \notin hashed /\ ~db[p].indexed

\* C12: the second loop leaves a row whose path was not seen and exists on disk as it
\* is and counts it nowhere, the commit persists it unchanged and it is not reported
\* missing; and no step of a sync run deletes a row whose path exists on disk.
C12_ExistingUntouched ==
  [][SyncStep =>
       /\ (AtRow /\ Head(stale)[1] \notin seen_paths /\ fs[Head(stale)[1]].exists)
            => /\ conn' = conn
               /\ removed_moved' = removed_moved
               /\ removed_missing' = removed_missing
               /\ missing' = missing
       /\ pc' = "sync_done"
            => \A p \in Paths :
                 (db[p].indexed /\ p \notin seen_paths /\ fs[p].exists)
                   => db'[p] = db[p] /\ ~InList(missing, p)
       /\ \A p \in Paths :
            ((conn[p].indexed /\ ~conn'[p].indexed) \/ (db[p].indexed /\ ~db'[p].indexed))
              => ~fs[p].exists]_vars

\* A run with --clean has pruned a row and kept the row of a file below the scanned
\* root that it did not visit (its suffix is excluded).
C12_Witness ==
  /\ pc = "sync_done"
  /\ args.clean
  /\ removed_missing = 1
  /\ \E p \in Paths \ seen_paths :
       db[p].indexed /\ fs[p].exists /\ UnderRoot(p, args.root)

\* The rows a committing run found unseen and absent from disk.
GoneRows == {p \in Paths : db[p].indexed /\ p \notin seen_paths /\ ~fs[p].exists}

\* C13: the second loop puts every row whose path was not seen and is not on disk in
\* exactly one of moved, missing_removed, missing_warned, and no other row in any:
\* moved (row deleted) when another row with the same fingerprint has a path on disk,
\* with or without --clean; otherwise missing_removed (row deleted) with --clean and
\* missing_warned (row kept, path appended to the missing list) without; at the end
\* the three counts add up to the number of such rows and the missing list holds,
\* once each, exactly those that are kept.
C13_CountersPartition ==
  [][SyncStep =>
       /\ AtRow =>
            LET p == Head(stale)[1]
                twin == HasLiveTwin(conn, p, conn[p].hash)
                kept == conn' = conn
                dropped == conn' = [conn EXCEPT ![p] = NoRec]
            IN IF p \in seen_paths \/ fs[p].exists
               THEN /\ removed_moved' = removed_moved
                    /\ removed_missing' = removed_missing
                    /\ missing' = missing
               ELSE /\ twin => /\ removed_moved' = removed_moved + 1
                               /\ removed_missing' = removed_missing
                               /\ missing' = missing
                               /\ dropped
                    /\ (~twin /\ args.clean) => /\ removed_moved' = removed_moved
                                                /\ removed_missing' = removed_missing + 1
                                                /\ missing' = missing
                                                /\ dropped
                    /\ (~twin /\ ~args.clean) => /\ removed_moved' = removed_moved
                                                 /\ removed_missing' = removed_missing
                                                 /\ missing' = Append(missing, p)
                                                 /\ kept
       /\ pc' = "sync_done"
            => /\ removed_moved + removed_missing + Len(missing) = Cardinality(GoneRows)
               /\ AsSet(missing) = {p \in GoneRows : db'[p].indexed}
               /\ Len(missing) = Cardinality(AsSet(missing))]_vars

\* A run with --clean has removed one row as moved and another as missing.
C13_Witness ==
  /\ pc = "sync_done"
  /\ args.clean
  /\ removed_moved = 1
  /\ removed_missing = 1

\* The files the walk of a run yields and the loop takes: below the root, on disk,
\* with an included suffix.
InScope == {p \in Paths : UnderRoot(p, args.root) /\ fs[p].exists /\ Lower(Suffix(p)) \in args.exts}

\* C14: when a sync run during which no file vanished commits, every file below the
\* root with an included suffix has a row with the file's size and mtime; if the row
\* the run found had another size or mtime, or there was none, the file was hashed and
\* the row now holds the fresh fingerprint, size, mtime and suffix; if both matched,
\* the file was not hashed and the row is the one the run found.
C14_RefreshOnMiss ==
  [][(SyncCommits /\ raced = {}) =>
       \A p \in InScope :
         LET size == Len(fs[p].content)
             mtime == fs[p].mtime
             matched == db[p].indexed /\ db[p].size = size /\ db[p].mtime = mtime
         IN /\ db'[p].indexed
            /\ db'[p].size = size
            /\ db'[p].mtime = mtime
            /\ ~matched => /\ p \in hashed
                           /\ db'[p] = [indexed |-> TRUE, hash |-> sha256(fs[p].content),
                                        size |-> size, mtime |-> mtime,
                                        ext |-> Lower(Suffix(p))]
            /\ matched => (p \notin hashed /\ db'[p] = db[p])]_vars

\* A run after the rewrite of an indexed file has hashed that file, taken another
\* from the cache, and the rewritten file's row holds its new content's fingerprint.
C14_Witness ==
  /\ pc = "sync_done"
  /\ raced = {}
  /\ prior.kind = "write"
  /\ prior.path \in hashed
  /\ statted \ hashed # {}
  /\ db[prior.path].hash = sha256(fs[prior.path].content)

\* A step of the dedup loop in which the index could not be written: the file of the
\* candidate was removed and its row is still there.
IndexWriteFails ==
  /\ AtCandidate
  /\ fs[Head(to_delete)].exists
  /\ ~fs'[Head(to_delete)].exists
  /\ conn'[Head(to_delete)].indexed

\* C15 as stated: when an index write fails the invocation aborts at that point: the
\* process ends with the open transaction rolled back, the remaining candidates are
\* not processed and no further file is removed.
C15_StorageFailureFatal ==
  [][IndexWriteFails => (pc' = "aborted" /\ conn' = db /\ to_delete' = <<>>)]_vars

\* C16: when a sync run during which the tree did not change commits, with --clean the
\* index it leaves holds no row whose path is absent from disk, whatever rows for
\* absent paths it found (left by external deletions or by a dedup run that removed
\* files and not their rows); without --clean every row it leaves for an absent path
\* is in the missing list it reports.
C16_SyncRepairsLag ==
  [][(SyncCommits /\ raced = {}) =>
       \A p \in Paths :
         (db'[p].indexed /\ ~fs[p].exists) => (~args.clean /\ InList(missing, p))]_vars

\* With no external change at all, a sync --clean has found and removed a row for a
\* file that is gone (a dedup run removed the file and its row stayed), and every
\* row left has its file.
C16_Witness ==
  /\ pc = "sync_done"
  /\ changes = 0
  /\ args.clean
  /\ removed_moved + removed_missing > 0
  /\ \A p \in Paths : db[p].indexed => fs[p].exists

\* A run commits: the last step of cmd_sync or of the loop of cmd_dedup.
Commits ==
  \/ pc = "reconcile" /\ stale = <<>> /\ pc' = "sync_done"
  \/ pc = "dedup" /\ to_delete = <<>> /\ pc' = "dedup_done"

\* C17: the persisted index changes only in the one commit that ends a run, which
\* persists all the writes of the run at once; a process that ends before it leaves
\* the persisted index as the run found it and the next connection sees exactly that,
\* while the files dedup has removed stay removed.
C17_AllOrNothing ==
  [][/\ db' # db => (Commits /\ db' = conn)
     /\ pc' = "aborted" => (db' = db /\ conn' = db /\ fs' = fs)]_vars

\* A dedup run was cut short after it had removed a file and deleted its row in the
\* open transaction: the file is gone and the persisted row is still there.
C17_Witness ==
  /\ pc = "aborted"
  /\ prior.kind = "killed"
  /\ prior.dirty
  /\ prior.removed
  /\ \E p \in Paths : db[p].indexed /\ ~fs[p].exists

\* C18: no step of a sync run, with or without --clean, changes the tree (a file that
\* vanishes during the walk is the doing of another program); the only steps of the
\* program that change it are those of a dedup run without --dry-run, and each removes
\* files among the candidates the run selected and changes no other.
C18_SyncReadOnly ==
  [][/\ (pc \in {"walk", "reconcile"} /\ changes' = changes) => fs' = fs
     /\ (fs' # fs /\ changes' = changes)
          => /\ pc = "dedup"
             /\ args.cmd = "dedup"
             /\ ~args.dry_run
             /\ \A q \in Paths : fs'[q] # fs[q] => (InList(rows, q) /\ ~fs'[q].exists)]_vars

\* A sync --clean has hashed a file and pruned a row, and every file it walked past
\* is still there.
C18_Witness ==
  /\ pc = "sync_done"
  /\ args.clean
  /\ hashed # {}
  /\ removed_missing > 0
  /\ \A p \in statted : fs[p].exists

====
